---- MODULE Spec2Model ----
(***************************************************************************)
(* Model of the note-enhancement endpoint, src/app/api/enhance-note/       *)
(* route.ts.  One request is followed from the call of POST to the single  *)
(* response it sends.  POST is an async function, so its code runs in      *)
(* three uninterrupted segments separated by its three awaits: auth(),     *)
(* request.json() and openai.chat.completions.create().  Each action below *)
(* is one way one of those segments can run to its end (the next await or  *)
(* a return), the catch block included.                                    *)
(*                                                                         *)
(* Strings are modelled by what the code reads of them: originalContent by *)
(* its length, the generated text by whether the provider returned any.    *)
(* subject, noteId and wordCount take part in no decision and are left out.*)
(***************************************************************************)
EXTENDS Integers, Sequences, FiniteSets, TLC

(* ---------------- bounds of the model ---------------- *)
MaxLen == 5          \* content lengths 0..MaxLen are enumerated
MaxCeiling == 1      \* model ceilings 1..MaxCeiling are enumerated

(* ---------------- values ---------------- *)
None == <<>>                 \* undefined / absent
Some(x) == <<x>>             \* a present value
NoNumber == -1               \* a numeric field that is not set

\* originalContent.length: short notes and one 10,000-character note
ContentLengths == (0..MaxLen) \cup {10000}
\* modelConfig.maxInputTokens: small ceilings and one of 2000 tokens
ModelCeilings == (1..MaxCeiling) \cup {2000}

StructureLevels == {"basic", "detailed", "comprehensive"}

EnhancementSettings ==
  [includeDefinitions : BOOLEAN, generateQuestions : BOOLEAN,
   createSummary : BOOLEAN, addExamples : BOOLEAN,
   structureLevel : StructureLevels, autoGenerateFlashcards : BOOLEAN]

\* The request body.  parses = FALSE: request.json() rejects.  Otherwise the
\* parsed object, whose originalContent (a length, NoNumber when the field is
\* missing) and enhancementSettings (None when the field is missing) are read.
MalformedBody ==
  [parses |-> FALSE, originalContent |-> NoNumber, enhancementSettings |-> None]

Bodies ==
  {MalformedBody} \cup
  [parses : {TRUE},
   originalContent : ContentLengths \cup {NoNumber},
   enhancementSettings : {None} \cup {Some(s) : s \in EnhancementSettings}]

\* Plans the identity provider knows; has is None when auth() returns no has
\* function, else the set of plans for which has({plan}) is true.
Plans == {"student", "pro", "premium", "free_user"}
HasValues == {None} \cup {Some(ps) : ps \in SUBSET Plans}

\* What the catch block can read of a thrown value: error.code, error.status,
\* and the text it carries (message, payload, stack).  status 0: no status.
FaultCodes == {"none", "rate_limit_exceeded", "insufficient_quota"}
FaultStatuses == {0, 429, 500}
FaultTexts == {"provider text A", "provider text B"}
Faults == [code : FaultCodes, status : FaultStatuses, message : FaultTexts]

\* request.json() rejects with a SyntaxError or a TypeError, and reading a
\* property of undefined throws a TypeError: no code, no status.
TypeErrors == [code : {"none"}, status : {0}, message : FaultTexts]
NoFault == [code |-> "none", status |-> 0, message |-> "no fault"]

\* completion.choices[0]?.message?.content: a text, or nothing.
ProviderTexts == {"", "enhanced markdown"}
ElapsedTimes == {0, 1000}

(* ---------------- line 11-26, 111: instruction fragments ---------------- *)
enhancementPrompts ==
  [structure |-> "structure", definitions |-> "definitions",
   questions |-> "questions", summary |-> "summary", examples |-> "examples"]
DetailedInstruction == "structure-light"
BlankLine == "\n\n"

VARIABLES pc, body, credential, modelCeiling, userId, has, isPaid,
          effectiveSettings, estimatedTokens, maxTokens, enhancements,
          instructionBlock, providerCalls, fault, faultSite, response,
          responsesSent

vars == <<pc, body, credential, modelCeiling, userId, has, isPaid,
          effectiveSettings, estimatedTokens, maxTokens, enhancements,
          instructionBlock, providerCalls, fault, faultSite, response,
          responsesSent>>

(* ---------------- responses ---------------- *)
NoResponse ==
  [status |-> 0, success |-> FALSE, error |-> "", details |-> "",
   estimatedTokens |-> NoNumber, maxTokens |-> NoNumber,
   enhancedContent |-> "", processingTime |-> NoNumber]

UnauthorizedResponse_Forbidden ==
  [NoResponse EXCEPT !.status = 403, !.error = "Not authenticated"]

UnauthorizedResponse ==
  [NoResponse EXCEPT !.status = 401, !.error = "Not authenticated"]

ContentTooLargeResponse_TokenCeiling(est, max) ==
  [NoResponse EXCEPT !.status = 400, !.error = "Content too large",
                     !.estimatedTokens = est, !.maxTokens = max]

ContentTooLargeResponse(est, max) ==
  [NoResponse EXCEPT !.status = 400, !.error = "Content too large",
                     !.estimatedTokens = est, !.maxTokens = max * 4]

PlaceholderResponse_Timed ==
  [NoResponse EXCEPT !.status = 200, !.success = TRUE,
                     !.enhancedContent = "mock enhancement",
                     !.processingTime = 0]

PlaceholderResponse ==
  [NoResponse EXCEPT !.status = 200, !.success = TRUE,
                     !.enhancedContent = "mock enhancement",
                     !.processingTime = 1000]

SuccessResponse(text, elapsed) ==
  [NoResponse EXCEPT !.status = 200, !.success = TRUE,
                     !.enhancedContent = text, !.processingTime = elapsed]

RateLimitMessage == "Rate limit exceeded"
TooLargeForProcessingMessage == "Content too large for processing"
FailedMessage == "Failed to enhance note. Please try again."

\* the catch block with its two tests in the other order
ErrorResponse_StatusFirst(error) ==
  IF error.status = 429
  THEN [NoResponse EXCEPT !.status = 400,
          !.error = TooLargeForProcessingMessage,
          !.details = "Token limit exceeded. Try with shorter content."]
  ELSE IF error.code = "rate_limit_exceeded"
  THEN [NoResponse EXCEPT !.status = 429, !.error = RateLimitMessage,
          !.details = "OpenAI rate limit hit. Try with shorter content."]
  ELSE [NoResponse EXCEPT !.status = 500, !.error = FailedMessage]

\* the catch block passing error.message on in details
ErrorResponse_Leaky(error) ==
  IF error.code = "rate_limit_exceeded"
  THEN [NoResponse EXCEPT !.status = 429, !.error = RateLimitMessage,
          !.details = "OpenAI rate limit hit. Try with shorter content."]
  ELSE IF error.status = 429
  THEN [NoResponse EXCEPT !.status = 400,
          !.error = TooLargeForProcessingMessage,
          !.details = "Token limit exceeded. Try with shorter content."]
  ELSE [NoResponse EXCEPT !.status = 500, !.error = FailedMessage,
          !.details = error.message]

\* the catch block
ErrorResponse(error) ==
  IF error.code = "rate_limit_exceeded"
  THEN [NoResponse EXCEPT !.status = 429, !.error = RateLimitMessage,
          !.details = "OpenAI rate limit hit. Try with shorter content."]
  ELSE IF error.status = 429
  THEN [NoResponse EXCEPT !.status = 400,
          !.error = TooLargeForProcessingMessage,
          !.details = "Token limit exceeded. Try with shorter content."]
  ELSE [NoResponse EXCEPT !.status = 500, !.error = FailedMessage]

(* ---------------- pure steps of POST ---------------- *)
\* has?.({ plan }) ?? false
HasPlan(h, plan) == IF h = None THEN FALSE ELSE plan \in h[1]

\* isPro without the premium plan
IsPaid_NoPremium(h) ==
  LET isStudent == HasPlan(h, "student")
      isPro == HasPlan(h, "pro")
  IN  isStudent \/ isPro

IsPaid(h) ==
  LET isStudent == HasPlan(h, "student")
      isPro == HasPlan(h, "pro") \/ HasPlan(h, "premium")
  IN  isStudent \/ isPro

BasicPreset ==
  [includeDefinitions |-> TRUE, generateQuestions |-> FALSE,
   createSummary |-> FALSE, addExamples |-> FALSE,
   structureLevel |-> "basic", autoGenerateFlashcards |-> FALSE]

Normalize(paid, requested) == IF paid THEN requested ELSE Some(BasicPreset)

\* Math.floor in place of Math.ceil
EstimateTokens_Floor(len) == len \div 4

\* Math.ceil(length / 4)
EstimateTokens(len) == (len + 3) \div 4

\* the pushes with the summary test ahead of the questions test
Enhancements_SummaryFirst(s) ==
  LET e0 == <<>>
      e1 == IF s.structureLevel = "comprehensive"
            THEN Append(e0, enhancementPrompts.structure)
            ELSE IF s.structureLevel = "detailed"
            THEN Append(e0, DetailedInstruction)
            ELSE e0
      e2 == IF s.includeDefinitions
            THEN Append(e1, enhancementPrompts.definitions) ELSE e1
      e3 == IF s.createSummary
            THEN Append(e2, enhancementPrompts.summary) ELSE e2
      e4 == IF s.generateQuestions
            THEN Append(e3, enhancementPrompts.questions) ELSE e3
      e5 == IF s.addExamples
            THEN Append(e4, enhancementPrompts.examples) ELSE e4
  IN  e5

\* the pushes of lines 106-128, in order
Enhancements(s) ==
  LET e0 == <<>>
      e1 == IF s.structureLevel = "comprehensive"
            THEN Append(e0, enhancementPrompts.structure)
            ELSE IF s.structureLevel = "detailed"
            THEN Append(e0, DetailedInstruction)
            ELSE e0
      e2 == IF s.includeDefinitions
            THEN Append(e1, enhancementPrompts.definitions) ELSE e1
      e3 == IF s.generateQuestions
            THEN Append(e2, enhancementPrompts.questions) ELSE e2
      e4 == IF s.createSummary
            THEN Append(e3, enhancementPrompts.summary) ELSE e3
      e5 == IF s.addExamples
            THEN Append(e4, enhancementPrompts.examples) ELSE e4
  IN  e5

\* Array.prototype.join
RECURSIVE Join(_, _)
Join(list, sep) ==
  IF Len(list) = 0 THEN <<>>
  ELSE IF Len(list) = 1 THEN <<list[1]>>
  ELSE <<list[1], sep>> \o Join(Tail(list), sep)

(* ---------------- state ---------------- *)
Init ==
  /\ pc = "auth"
  /\ body \in Bodies
  /\ credential \in BOOLEAN
  /\ modelCeiling \in ModelCeilings
  /\ userId = "unresolved"
  /\ has = None
  /\ isPaid = FALSE
  /\ effectiveSettings = None
  /\ estimatedTokens = NoNumber
  /\ maxTokens = NoNumber
  /\ enhancements = <<>>
  /\ instructionBlock = <<>>
  /\ providerCalls = 0
  /\ fault = NoFault
  /\ faultSite = "none"
  /\ response = NoResponse
  /\ responsesSent = 0

\* return NextResponse.json(...)
Respond(r) ==
  /\ response' = r
  /\ responsesSent' = responsesSent + 1
  /\ pc' = "done"

\* a throw inside the try block: the catch block answers
Catch(error, site) ==
  /\ fault' = error
  /\ faultSite' = site
  /\ Respond(ErrorResponse(error))

(* ---------------- segment 1: up to the end of await auth() ------------- *)
AuthFaults ==
  /\ pc = "auth"
  /\ \E f \in Faults : Catch(f, "auth")
  /\ UNCHANGED <<body, credential, modelCeiling, userId, has, isPaid,
                 effectiveSettings, estimatedTokens, maxTokens, enhancements,
                 instructionBlock, providerCalls>>

Unauthorized ==
  /\ pc = "auth"
  /\ \E h \in HasValues :
       /\ userId' = "null"
       /\ has' = h
  /\ Respond(UnauthorizedResponse)
  /\ UNCHANGED <<body, credential, modelCeiling, isPaid, effectiveSettings,
                 estimatedTokens, maxTokens, enhancements, instructionBlock,
                 providerCalls, fault, faultSite>>

AuthReturns ==
  /\ pc = "auth"
  /\ \E h \in HasValues :
       /\ userId' = "user_1"
       /\ has' = h
       /\ isPaid' = IsPaid(h)
  /\ pc' = "json"
  /\ UNCHANGED <<body, credential, modelCeiling, effectiveSettings,
                 estimatedTokens, maxTokens, enhancements, instructionBlock,
                 providerCalls, fault, faultSite, response, responsesSent>>

(* ---------------- segment 2: from request.json() on -------------------- *)
JsonFaults ==
  /\ pc = "json"
  /\ ~body.parses
  /\ \E f \in TypeErrors : Catch(f, "json")
  /\ UNCHANGED <<body, credential, modelCeiling, userId, has, isPaid,
                 effectiveSettings, estimatedTokens, maxTokens, enhancements,
                 instructionBlock, providerCalls>>

\* originalContent.length of a missing originalContent
ContentTypeError ==
  /\ pc = "json"
  /\ body.parses
  /\ body.originalContent = NoNumber
  /\ effectiveSettings' = Normalize(isPaid, body.enhancementSettings)
  /\ \E f \in TypeErrors : Catch(f, "internal")
  /\ UNCHANGED <<body, credential, modelCeiling, userId, has, isPaid,
                 estimatedTokens, maxTokens, enhancements, instructionBlock,
                 providerCalls>>

\* lines 39-58, when nothing throws
Measured ==
  /\ pc = "json"
  /\ body.parses
  /\ body.originalContent # NoNumber
  /\ effectiveSettings' = Normalize(isPaid, body.enhancementSettings)
  /\ estimatedTokens' = EstimateTokens(body.originalContent)
  /\ maxTokens' = modelCeiling

BudgetReject ==
  /\ Measured
  /\ estimatedTokens' > maxTokens'
  /\ Respond(ContentTooLargeResponse(estimatedTokens', maxTokens'))
  /\ UNCHANGED <<body, credential, modelCeiling, userId, has, isPaid,
                 enhancements, instructionBlock, providerCalls, fault,
                 faultSite>>

Placeholder ==
  /\ Measured
  /\ ~(estimatedTokens' > maxTokens')
  /\ ~credential
  /\ Respond(PlaceholderResponse)
  /\ UNCHANGED <<body, credential, modelCeiling, userId, has, isPaid,
                 enhancements, instructionBlock, providerCalls, fault,
                 faultSite>>

\* effectiveSettings.structureLevel of a missing enhancementSettings
SettingsTypeError ==
  /\ Measured
  /\ ~(estimatedTokens' > maxTokens')
  /\ credential
  /\ effectiveSettings' = None
  /\ \E f \in TypeErrors : Catch(f, "internal")
  /\ UNCHANGED <<body, credential, modelCeiling, userId, has, isPaid,
                 enhancements, instructionBlock, providerCalls>>

CallProvider ==
  /\ Measured
  /\ ~(estimatedTokens' > maxTokens')
  /\ credential
  /\ effectiveSettings' # None
  /\ enhancements' = Enhancements(effectiveSettings'[1])
  /\ instructionBlock' = Join(enhancements', BlankLine)
  /\ providerCalls' = providerCalls + 1
  /\ pc' = "provider"
  /\ UNCHANGED <<body, credential, modelCeiling, userId, has, isPaid, fault,
                 faultSite, response, responsesSent>>

(* ---------------- segment 3: the provider call settles ----------------- *)
ProviderReturns ==
  /\ pc = "provider"
  /\ \E text \in ProviderTexts, elapsed \in ElapsedTimes :
       Respond(SuccessResponse(text, elapsed))
  /\ UNCHANGED <<body, credential, modelCeiling, userId, has, isPaid,
                 effectiveSettings, estimatedTokens, maxTokens, enhancements,
                 instructionBlock, providerCalls, fault, faultSite>>

\* a provider fault answered by calling the provider once more
ProviderFaults_Retry ==
  /\ pc = "provider"
  /\ providerCalls < 2
  /\ providerCalls' = providerCalls + 1
  /\ \E f \in Faults :
       /\ fault' = f
       /\ faultSite' = "provider"
  /\ UNCHANGED <<pc, body, credential, modelCeiling, userId, has, isPaid,
                 effectiveSettings, estimatedTokens, maxTokens, enhancements,
                 instructionBlock, response, responsesSent>>

ProviderFaults ==
  /\ pc = "provider"
  /\ \E f \in Faults : Catch(f, "provider")
  /\ UNCHANGED <<body, credential, modelCeiling, userId, has, isPaid,
                 effectiveSettings, estimatedTokens, maxTokens, enhancements,
                 instructionBlock, providerCalls>>

Next ==
  \/ AuthFaults
  \/ Unauthorized
  \/ AuthReturns
  \/ JsonFaults
  \/ ContentTypeError
  \/ BudgetReject
  \/ Placeholder
  \/ SettingsTypeError
  \/ CallProvider
  \/ ProviderReturns
  \/ ProviderFaults

Spec == Init /\ [][Next]_vars

\* every awaited call settles: it returns or it faults
FairSpec == Spec /\ WF_vars(Next)

(* ======================= properties ======================= *)

Authenticated == userId = "user_1"

\* the caller holds at least one of the plans student, pro, premium
PaidCaller ==
  /\ has # None
  /\ has[1] \cap {"student", "pro", "premium"} # {}

\* line 42 has run: the body parsed in an authenticated request
SettingsResolved ==
  /\ Authenticated
  /\ body.parses
  /\ pc \in {"provider", "done"}

AllOnSettings ==
  [includeDefinitions |-> TRUE, generateQuestions |-> TRUE,
   createSummary |-> TRUE, addExamples |-> TRUE,
   structureLevel |-> "comprehensive", autoGenerateFlashcards |-> TRUE]

\* C1: once the settings are resolved, an unpaid caller's effective settings
\* are the basic preset whatever was requested, and a paid caller's effective
\* settings are the requested settings, field for field.
C1_SettingsNormalized ==
  SettingsResolved =>
    /\ ~PaidCaller =>
         /\ effectiveSettings # None
         /\ effectiveSettings[1].includeDefinitions = TRUE
         /\ effectiveSettings[1].generateQuestions = FALSE
         /\ effectiveSettings[1].createSummary = FALSE
         /\ effectiveSettings[1].addExamples = FALSE
         /\ effectiveSettings[1].structureLevel = "basic"
         /\ effectiveSettings[1].autoGenerateFlashcards = FALSE
    /\ PaidCaller => effectiveSettings = body.enhancementSettings

\* an unpaid caller (holding only a plan that is not a paid one) asked for
\* everything and got the preset
C1_Witness ==
  /\ SettingsResolved
  /\ has = Some({"free_user"})
  /\ body.enhancementSettings = Some(AllOnSettings)
  /\ effectiveSettings[1].structureLevel = "basic"

\* C2: a request whose identity resolution returns no userId is answered 401
\* {success: false, error: "Not authenticated"} whatever its content length,
\* settings, model ceiling and credential; the budget gate and the provider
\* are not reached.
C2_UnauthorizedFirst ==
  userId = "null" =>
    /\ pc = "done"
    /\ response.status = 401
    /\ response.success = FALSE
    /\ response.error = "Not authenticated"
    /\ response.details = ""
    /\ response.estimatedTokens = NoNumber
    /\ response.maxTokens = NoNumber
    /\ response.enhancedContent = ""
    /\ response.processingTime = NoNumber
    /\ estimatedTokens = NoNumber
    /\ maxTokens = NoNumber
    /\ providerCalls = 0

\* no userId, an oversized note, a credential and a paid plan's has
C2_Witness ==
  /\ userId = "null"
  /\ body.originalContent = 10000
  /\ body.enhancementSettings = Some(AllOnSettings)
  /\ credential
  /\ has = Some({"premium"})
  /\ response.status = 401

\* segment 2 has run past the measuring of a string originalContent
GateReached ==
  /\ SettingsResolved
  /\ body.originalContent # NoNumber

\* ceil(n / 4) > M, stated on the inputs
OverBudget == body.originalContent > 4 * modelCeiling

\* C3: an authenticated request whose estimated tokens exceed the model's
\* maxInputTokens never invokes the provider and is answered with status 400,
\* paid or unpaid, with or without a credential.
C3_BudgetGateShortCircuit ==
  (GateReached /\ OverBudget) =>
    /\ providerCalls = 0
    /\ pc = "done"
    /\ response.status = 400

\* 5 characters against a ceiling of 1 token, paid, credential configured
C3_Witness ==
  /\ GateReached
  /\ body.originalContent = 5
  /\ modelCeiling = 1
  /\ PaidCaller
  /\ credential
  /\ response.status = 400

\* k is the least integer with 4k >= n
IsCeilOfQuarter(k, n) == 4 * k >= n /\ 4 * (k - 1) < n

BudgetRejected ==
  /\ pc = "done"
  /\ response.status = 400
  /\ response.error = "Content too large"

\* C4: estimatedTokens is ceil(n / 4) (0, 1, 4, 5 give 0, 1, 1, 2); a
\* budget-gate rejection carries it with maxTokens = 4 * M; 10000 characters
\* against a ceiling of 2000 give 400 with estimatedTokens 2500 and
\* maxTokens 8000.
C4_BudgetArithmetic ==
  GateReached =>
    /\ IsCeilOfQuarter(estimatedTokens, body.originalContent)
    /\ body.originalContent = 0 => estimatedTokens = 0
    /\ body.originalContent = 1 => estimatedTokens = 1
    /\ body.originalContent = 4 => estimatedTokens = 1
    /\ body.originalContent = 5 => estimatedTokens = 2
    /\ BudgetRejected =>
         /\ response.estimatedTokens = estimatedTokens
         /\ response.maxTokens = 4 * modelCeiling
    /\ (body.originalContent = 10000 /\ modelCeiling = 2000) =>
         /\ response.status = 400
         /\ response.estimatedTokens = 2500
         /\ response.maxTokens = 8000

C4_Witness ==
  /\ GateReached
  /\ ~PaidCaller
  /\ body.originalContent = 10000
  /\ modelCeiling = 2000
  /\ response.estimatedTokens = 2500

IsPlaceholder ==
  /\ response.status = 200
  /\ response.success = TRUE
  /\ response.processingTime = 1000
  /\ response.enhancedContent = "mock enhancement"

\* C5 as stated: every authenticated request handled without a credential
\* is answered with the placeholder document, and the provider is not called.
C5_PlaceholderAlways ==
  (Authenticated /\ pc = "done" /\ ~credential) =>
    /\ IsPlaceholder
    /\ providerCalls = 0

\* C5: every authenticated request handled without a credential whose body
\* parses with a string originalContent and passes the budget gate is
\* answered with the placeholder document (success true, processingTime
\* 1000); without a credential the provider is never called.
C5_PlaceholderPath ==
  /\ (GateReached /\ ~OverBudget /\ ~credential) =>
       /\ pc = "done"
       /\ IsPlaceholder
  /\ ~credential => providerCalls = 0

\* a paid caller with every flag on, no credential
C5_Witness ==
  /\ GateReached
  /\ ~credential
  /\ PaidCaller
  /\ body.enhancementSettings = Some(AllOnSettings)
  /\ response.processingTime = 1000
  /\ response.success

Faulted == pc = "done" /\ faultSite # "none"

\* C6: the catch block answers a fault whose code is rate_limit_exceeded with
\* 429 and the rate-limit message even when its status is 429 too, a fault
\* with status 429 and another code with 400 and the content-too-large
\* message, every other fault with 500 and the generic message; success is
\* false in all three.
C6_FaultClassification ==
  Faulted =>
    /\ response.success = FALSE
    /\ fault.code = "rate_limit_exceeded" =>
         /\ response.status = 429
         /\ response.error = "Rate limit exceeded"
    /\ (fault.code # "rate_limit_exceeded" /\ fault.status = 429) =>
         /\ response.status = 400
         /\ response.error = "Content too large for processing"
    /\ (fault.code # "rate_limit_exceeded" /\ fault.status # 429) =>
         /\ response.status = 500
         /\ response.error = "Failed to enhance note. Please try again."

\* a fault that is both: code rate_limit_exceeded and status 429
C6_Witness ==
  /\ Faulted
  /\ fault.code = "rate_limit_exceeded"
  /\ fault.status = 429
  /\ response.status = 429

\* the five slots of the instruction block, in their fixed order; a slot is
\* a sequence of no or one instruction
InstructionSlots(s) ==
  << IF s.structureLevel = "comprehensive" THEN <<"structure">>
     ELSE IF s.structureLevel = "detailed" THEN <<"structure-light">>
     ELSE <<>>,
     IF s.includeDefinitions THEN <<"definitions">> ELSE <<>>,
     IF s.generateQuestions THEN <<"questions">> ELSE <<>>,
     IF s.createSummary THEN <<"summary">> ELSE <<>>,
     IF s.addExamples THEN <<"examples">> ELSE <<>> >>

SelectedInstructions(s) ==
  LET slots == InstructionSlots(s)
  IN  slots[1] \o slots[2] \o slots[3] \o slots[4] \o slots[5]

\* block is list with one blank line between neighbours
JoinedByBlankLines(block, list) ==
  /\ Len(block) = IF Len(list) = 0 THEN 0 ELSE 2 * Len(list) - 1
  /\ \A i \in 1..Len(list) : block[2 * i - 1] = list[i]
  /\ \A i \in 1..(Len(list) - 1) : block[2 * i] = "\n\n"

Occurs(x, seq) == \E i \in 1..Len(seq) : seq[i] = x

\* C7: the enhancement block of the composed prompt is the selected
\* subsequence of [structuring, definitions, questions, summary, examples]
\* joined by blank lines; the structuring slot is the full instruction iff
\* comprehensive, the lighter one iff detailed, nothing iff basic; the two
\* never both appear; all-false basic settings give an empty block.
C7_InstructionBlock ==
  providerCalls = 1 =>
    LET s == effectiveSettings[1]
    IN  /\ JoinedByBlankLines(instructionBlock, SelectedInstructions(s))
        /\ Occurs("structure", instructionBlock)
             <=> s.structureLevel = "comprehensive"
        /\ Occurs("structure-light", instructionBlock)
             <=> s.structureLevel = "detailed"
        /\ ~(Occurs("structure", instructionBlock)
               /\ Occurs("structure-light", instructionBlock))
        /\ (/\ s.structureLevel = "basic"
            /\ ~s.includeDefinitions /\ ~s.generateQuestions
            /\ ~s.createSummary /\ ~s.addExamples)
             => instructionBlock = <<>>

\* every instruction selected: five fragments, four blank lines
C7_Witness ==
  /\ providerCalls = 1
  /\ effectiveSettings = Some(AllOnSettings)
  /\ Len(instructionBlock) = 9

Outcomes ==
  { <<401, "Not authenticated">>,
    <<400, "Content too large">>,
    <<400, "Content too large for processing">>,
    <<429, "Rate limit exceeded">>,
    <<500, "Failed to enhance note. Please try again.">>,
    <<200, "">> }

OneResponse ==
  /\ responsesSent <= 1
  /\ providerCalls <= 1
  /\ pc = "done" <=> responsesSent = 1
  /\ responsesSent = 1 => <<response.status, response.error>> \in Outcomes
  /\ faultSite = "provider" => (pc = "done" /\ providerCalls = 1)

\* C8: when every awaited call returns or faults, POST eventually sends
\* exactly one response, one of 401, 400 (budget), 400 (reclassified), 429,
\* 500 and 200; the provider is invoked at most once, and not again after a
\* provider fault.
C8_SingleResponse ==
  /\ []OneResponse
  /\ <>[](pc = "done" /\ responsesSent = 1)

\* a provider fault answered, the provider called once
C8_Witness ==
  /\ pc = "done"
  /\ faultSite = "provider"
  /\ providerCalls = 1
  /\ responsesSent = 1
  /\ response.status = 500

SameClassification(f, g) ==
  /\ (f.code = "rate_limit_exceeded") <=> (g.code = "rate_limit_exceeded")
  /\ (f.status = 429) <=> (g.status = 429)

\* C9: the response to a fault is the response to every fault of the same
\* classification (code = rate_limit_exceeded, status = 429), status and
\* body alike, and carries none of the fault's text.
C9_NoProviderTextLeak ==
  Faulted =>
    /\ \A g \in Faults :
         SameClassification(fault, g) => ErrorResponse(g) = response
    /\ response.error \notin FaultTexts
    /\ response.details \notin FaultTexts
    /\ response.enhancedContent \notin FaultTexts

\* an unclassified fault carrying text was answered
C9_Witness ==
  /\ Faulted
  /\ faultSite = "provider"
  /\ fault.message = "provider text B"
  /\ fault.code = "insufficient_quota"
  /\ response.status = 500

Reclassified ==
  \/ response.status = 429 /\ response.error = "Rate limit exceeded"
  \/ /\ response.status = 400
     /\ response.error = "Content too large for processing"

\* C10: a 429 'Rate limit exceeded' or a 400 'Content too large for
\* processing' response is sent only when the provider was invoked and that
\* invocation faulted; a fault of the identity lookup or the body parsing
\* never yields either.
C10_ProviderOnlyReclassification ==
  (pc = "done" /\ Reclassified) =>
    /\ providerCalls = 1
    /\ faultSite = "provider"

====
